---- MODULE Spec2Model ----
(***************************************************************************)
(* Model of Santipur_ndvi.js: robust Sentinel-2 masking, yearly median     *)
(* NDVI composites, per-pixel linear trend and the nodata mask of the      *)
(* slope layer.                                                            *)
(*                                                                         *)
(* Images are modelled pixel by pixel.  A band is a function from pixels   *)
(* to [m, v]: m is the pixel's mask (TRUE = the pixel carries data) and v  *)
(* its value.  An image is [ok, bands, px]: ok is FALSE when computing the *)
(* image raised an error (a band that is not on the image was selected),   *)
(* bands is the set of band names on the image, px maps names to bands.    *)
(* px may hold entries for names outside bands: they stand for whatever    *)
(* the platform would hold there and are reachable only through Select,    *)
(* which refuses them.                                                     *)
(*                                                                         *)
(* NDVI is a ratio; it is kept exactly as an integer number of 1/Scale.    *)
(***************************************************************************)
EXTENDS Integers, Sequences, FiniteSets

VARIABLES
    img,         \* SpecMask: the input image of maskS2SR
    out,         \* SpecMask: the image maskS2SR returned
    pc,          \* position of the script
    col,         \* collectionForYear(y) of the year built last
    yearlyList,  \* the yearly images built so far
    lastYear,    \* yearCollection filtered on year = yearEnd
    fit,         \* linearFit of (t, NDVI) per pixel
    anyValid,    \* the band named anyValid
    slope        \* the slope layer

vars == <<img, out, pc, col, yearlyList, lastYear, fit, anyValid, slope>>

(* ---------- USER PARAMETERS ---------- *)
yearStart == 2018
yearEnd == 2023

\* Pixels of the scene; region is the part of the scene inside the rectangle.
Pixels == {1, 2}
region == {1}

\* Largest number of images a year's filtered collection holds in the model.
MaxImgs == 2

\* NDVI values are integers in units of 1/Scale.
Scale == 2 * 12
NoData == (-9999) * Scale

MaskBands == {"SCL", "QA60", "MSK_CLDPRB"}
OpticalBands == {"B8", "B4"}

(* ---------- platform operators ---------- *)
Px(m, v) == [m |-> m, v |-> v]
B01(b) == IF b THEN 1 ELSE 0

\* The result of an operation that raised an error.
ErrBand == [ok |-> FALSE, px |-> [p \in Pixels |-> Px(FALSE, 0)]]

\* ee.Image.constant(c): value c, unmasked everywhere.
Constant(c) == [ok |-> TRUE, px |-> [p \in Pixels |-> Px(TRUE, c)]]

\* image.select(b): an error when b is not a band of the image.
Select(image, b) ==
    IF image.ok /\ b \in image.bands
    THEN [ok |-> TRUE, px |-> image.px[b]]
    ELSE ErrBand

\* band.eq(k)
Eq(band, k) ==
    IF band.ok
    THEN [ok |-> TRUE,
          px |-> [p \in Pixels |-> Px(band.px[p].m, B01(band.px[p].v = k))]]
    ELSE ErrBand

\* band.neq(k)
Neq(band, k) ==
    IF band.ok
    THEN [ok |-> TRUE,
          px |-> [p \in Pixels |-> Px(band.px[p].m, B01(band.px[p].v # k))]]
    ELSE ErrBand

\* band.lt(k)
Lt(band, k) ==
    IF band.ok
    THEN [ok |-> TRUE,
          px |-> [p \in Pixels |-> Px(band.px[p].m, B01(band.px[p].v < k))]]
    ELSE ErrBand

\* a.or(b): masked where either input is masked.
Or(a, b) ==
    IF a.ok /\ b.ok
    THEN [ok |-> TRUE,
          px |-> [p \in Pixels |->
                     Px(a.px[p].m /\ b.px[p].m,
                        B01(a.px[p].v # 0 \/ b.px[p].v # 0))]]
    ELSE ErrBand

\* a.and(b), used by the variant MaskCombineAnd only.
And(a, b) ==
    IF a.ok /\ b.ok
    THEN [ok |-> TRUE,
          px |-> [p \in Pixels |->
                     Px(a.px[p].m /\ b.px[p].m,
                        B01(a.px[p].v # 0 /\ b.px[p].v # 0))]]
    ELSE ErrBand

ErrImage == [ok |-> FALSE, bands |-> {}, px |-> <<>>]

\* image.updateMask(mask): every band keeps a pixel only where it already
\* carried data and the mask is unmasked and non-zero there.
UpdateMask(image, mask) ==
    IF image.ok /\ mask.ok
    THEN [image EXCEPT !.px =
            [b \in DOMAIN image.px |->
               [p \in Pixels |->
                  Px(image.px[b][p].m /\ mask.px[p].m /\ mask.px[p].v # 0,
                     image.px[b][p].v)]]]
    ELSE ErrImage

\* ee.Algorithms.If(c, a, b): the result is the alternative c selects.
If(c, a, b) == IF c THEN a ELSE b

(* ---------- Robust S2 mask ---------- *)
\* SCL in {4,5,6,7}: the main land classes.
SclLand(image) ==
    Or(Or(Or(Eq(Select(image, "SCL"), 4), Eq(Select(image, "SCL"), 5)),
          Eq(Select(image, "SCL"), 6)),
       Eq(Select(image, "SCL"), 7))

\* Variant: SCL is read without asking whether the image has it.
SclMaskUnguarded(image) == SclLand(image)

sclMask(image) ==
    If("SCL" \in image.bands, SclLand(image), Constant(1))

qaMask(image) ==
    If("QA60" \in image.bands,
       Eq(Select(image, "QA60"), 0),
       If("MSK_CLDPRB" \in image.bands,
          Lt(Select(image, "MSK_CLDPRB"), 50),
          Constant(1)))

\* Variant: the two masks are combined with and instead of or.
MaskCombineAnd(image) == And(sclMask(image), qaMask(image))

combined(image) == Or(sclMask(image), qaMask(image))

maskS2SR(image) == UpdateMask(image, combined(image))


(* ---------- NDVI function ---------- *)
\* img.normalizedDifference([a, b]): (a - b) / (a + b) in units of 1/Scale;
\* masked where an input is masked or negative, or the sum is zero.
NormalizedDifference(image, a, b) ==
    IF image.ok /\ a \in image.bands /\ b \in image.bands
    THEN [ok |-> TRUE,
          px |-> [p \in Pixels |->
                    LET x == image.px[a][p]
                        y == image.px[b][p]
                    IN  IF x.v + y.v # 0
                        THEN Px(x.m /\ y.m /\ x.v >= 0 /\ y.v >= 0,
                                ((x.v - y.v) * Scale) \div (x.v + y.v))
                        ELSE Px(FALSE, 0)]]
    ELSE ErrBand

\* image.addBands(band.rename(name))
AddBands(image, name, band) ==
    IF image.ok /\ band.ok
    THEN [image EXCEPT
            !.bands = image.bands \cup {name},
            !.px = [b \in DOMAIN image.px \cup {name} |->
                       IF b = name THEN band.px ELSE image.px[b]]]
    ELSE ErrImage

addNDVIBands(image) ==
    AddBands(image, "NDVI", NormalizedDifference(image, "B8", "B4"))

(* ---------- Helper to load collection for a year ---------- *)
\* The scenes of the catalogue.  A scene is uniform over its pixels:
\* valid tells whether its pixels carry data, present which of the mask
\* bands it has.
Scene(present, valid, scl, qa, cld, b8, b4) ==
    [ok |-> TRUE,
     bands |-> OpticalBands \cup present,
     px |-> [b \in OpticalBands \cup MaskBands |->
               [p \in Pixels |->
                  Px(valid, CASE b = "SCL" -> scl
                              [] b = "QA60" -> qa
                              [] b = "MSK_CLDPRB" -> cld
                              [] b = "B8" -> b8
                              [] OTHER -> b4)]]]

Catalogue ==
    << Scene(MaskBands, TRUE, 4, 0, 5, 3, 1),      \* vegetation, clear
       Scene(MaskBands, TRUE, 9, 1024, 90, 2, 2),  \* cloud
       Scene(MaskBands, TRUE, 5, 0, 5, 1, 3),      \* not vegetated, clear
       Scene({}, TRUE, 0, 0, 0, 3, 1) >>           \* no mask band at all

\* What filterDate(start, end).filterBounds(region) can leave of the
\* catalogue for one year: up to MaxImgs scenes, here by catalogue index in
\* ascending order.
FilteredCollections ==
    UNION { { s \in [1..n -> 1..Len(Catalogue)] :
                \A i \in 1..(n - 1) : s[i] <= s[i + 1] } : n \in 0..MaxImgs }

\* collectionForYear(y) for sensor = 'S2', given the scenes the filters leave.
collectionForYear(y, filtered) ==
    [i \in 1..Len(filtered) |-> addNDVIBands(maskS2SR(Catalogue[filtered[i]]))]

(* ---------- Build yearly images ---------- *)
\* Variant: the sequence stops before yearEnd.
YearsExclusive == [i \in 1..(yearEnd - yearStart) |-> yearStart + i - 1]

\* ee.List.sequence(yearStart, yearEnd)
years == [i \in 1..(yearEnd - yearStart + 1) |-> yearStart + i - 1]

\* The values a collection has for band b at pixel p, masked ones left out.
RECURSIVE ValuesAt(_, _, _)
ValuesAt(c, b, p) ==
    IF Len(c) = 0 THEN <<>>
    ELSE LET x == c[1].px[b][p]
         IN  (IF x.m THEN <<x.v>> ELSE <<>>) \o ValuesAt(Tail(c), b, p)

\* The k-th smallest element of a non-empty sequence of integers.
Kth(s, k) ==
    CHOOSE x \in {s[i] : i \in 1..Len(s)} :
        /\ Cardinality({i \in 1..Len(s) : s[i] < x}) < k
        /\ Cardinality({i \in 1..Len(s) : s[i] <= x}) >= k

\* ee.Reducer.median() of a non-empty sequence.
Median(s) ==
    LET n == Len(s)
    IN  IF n % 2 = 1 THEN Kth(s, (n + 1) \div 2)
        ELSE (Kth(s, n \div 2) + Kth(s, n \div 2 + 1)) \div 2

\* Variant: the largest value, which a mask of nodata-only pixels needs.
MinAsMax(s) == Kth(s, Len(s))

\* ee.Reducer.min() of a non-empty sequence.
Min(s) == Kth(s, 1)

CollOk(c, b) == \A i \in 1..Len(c) : c[i].ok /\ b \in c[i].bands

\* col.select('NDVI').median(): per pixel the median of the unmasked
\* values, masked where there is none.
MedianBand(c, b) ==
    IF CollOk(c, b)
    THEN [ok |-> TRUE,
          px |-> [p \in Pixels |->
                    LET s == ValuesAt(c, b, p)
                    IN  IF Len(s) = 0 THEN Px(FALSE, 0)
                        ELSE Px(TRUE, Median(s))]]
    ELSE ErrBand

\* col.select(b).reduce(ee.Reducer.min())
MinBand(c, b) ==
    IF CollOk(c, b)
    THEN [ok |-> TRUE,
          px |-> [p \in Pixels |->
                    LET s == ValuesAt(c, b, p)
                    IN  IF Len(s) = 0 THEN Px(FALSE, 0)
                        ELSE Px(TRUE, Min(s))]]
    ELSE ErrBand

\* band.clip(region): pixels outside the region are masked.
Clip(band) ==
    IF band.ok
    THEN [ok |-> TRUE,
          px |-> [p \in Pixels |->
                    Px(band.px[p].m /\ p \in region, band.px[p].v)]]
    ELSE ErrBand

\* A one-band image named name.
Rename(band, name) ==
    IF band.ok
    THEN [ok |-> TRUE, bands |-> {name}, px |-> [b \in {name} |-> band.px]]
    ELSE ErrImage

\* Variant: a collection of one image counts as empty.
YearHasImagesGt1(c) == Len(c) > 1

\* col.size().gt(0)
YearHasImages(c) == Len(c) > 0

\* The body of the function mapped over years.
YearlyImage(y, c) ==
    LET med == If(YearHasImages(c),
                  Rename(Clip(MedianBand(c, "NDVI")), "NDVI"),
                  Rename(Clip(Constant(NoData)), "NDVI"))
        withT == AddBands(med, "t", Constant(y))
    IN  [ok |-> withT.ok, bands |-> withT.bands, px |-> withT.px, year |-> y]

\* ee.ImageCollection.fromImages(yearlyList)
yearCollection == yearlyList

\* collection.filter(ee.Filter.eq('year', y))
RECURSIVE FilterYear(_, _)
FilterYear(c, y) ==
    IF Len(c) = 0 THEN <<>>
    ELSE (IF c[1].year = y THEN <<c[1]>> ELSE <<>>) \o FilterYear(Tail(c), y)

\* collection.first(): an error when the collection is empty.
First(c) == IF Len(c) = 0 THEN ErrImage ELSE c[1]

(* ---------- Trend: linear slope per year ---------- *)
\* The (t, NDVI) pairs of pixel p, over the images where both carry data.
RECURSIVE Points(_, _)
Points(c, p) ==
    IF Len(c) = 0 THEN <<>>
    ELSE LET x == c[1].px["t"][p]
             y == c[1].px["NDVI"][p]
         IN  (IF x.m /\ y.m THEN << <<x.v, y.v>> >> ELSE <<>>)
                 \o Points(Tail(c), p)

RECURSIVE SumT(_)
SumT(pts) == IF Len(pts) = 0 THEN 0 ELSE pts[1][1] + SumT(Tail(pts))

RECURSIVE SumTT(_)
SumTT(pts) ==
    IF Len(pts) = 0 THEN 0 ELSE pts[1][1] * pts[1][1] + SumTT(Tail(pts))

\* Sum of y * (n * t - st) over the points.
RECURSIVE SumYC(_, _, _)
SumYC(pts, n, st) ==
    IF Len(pts) = 0 THEN 0
    ELSE pts[1][2] * (n * pts[1][1] - st) + SumYC(Tail(pts), n, st)

\* paired.reduce(ee.Reducer.linearFit()).select('scale'): the least-squares
\* slope num / den of NDVI over t, kept as the pair <<num, den>>.  A pixel
\* without points is masked.  With a single point the slope is 0 / 0; whether
\* the platform then masks the pixel is left open (degenerate).
LinearFitScale(c, degenerate) ==
    IF CollOk(c, "t") /\ CollOk(c, "NDVI")
    THEN [ok |-> TRUE,
          px |-> [p \in Pixels |->
                    LET pts == Points(c, p)
                        n == Len(pts)
                        st == SumT(pts)
                    IN  CASE n = 0 -> Px(FALSE, <<0, 0>>)
                          [] n = 1 -> Px(degenerate, <<0, 0>>)
                          [] OTHER -> Px(TRUE, <<SumYC(pts, n, st),
                                                 n * SumTT(pts) - st * st>>)]]
    ELSE ErrBand

\* yearCollection.select('NDVI').reduce(ee.Reducer.min()).neq(-9999)
AnyValid(c) == Neq(MinBand(c, "NDVI"), NoData)

(* ---------- the script ---------- *)
NoImage == ErrImage

PipelineIdle ==
    /\ col = <<>>
    /\ yearlyList = <<>>
    /\ lastYear = NoImage
    /\ fit = ErrBand
    /\ anyValid = ErrBand
    /\ slope = NoImage

Init ==
    /\ pc = "years"
    /\ img = NoImage
    /\ out = NoImage
    /\ PipelineIdle

\* One application of the function mapped over years (lines 101-111).
BuildYear ==
    /\ pc = "years"
    /\ Len(yearlyList) < Len(years)
    /\ \E filtered \in FilteredCollections :
          LET y == years[Len(yearlyList) + 1]
              c == collectionForYear(y, filtered)
          IN  /\ col' = c
              /\ yearlyList' = Append(yearlyList, YearlyImage(y, c))
    /\ UNCHANGED <<img, out, pc, lastYear, fit, anyValid, slope>>

\* yearCollection and the last year's image (lines 113-119).
Collect ==
    /\ pc = "years"
    /\ Len(yearlyList) = Len(years)
    /\ pc' = "collected"
    /\ col' = <<>>
    /\ lastYear' = First(FilterYear(yearCollection, yearEnd))
    /\ UNCHANGED <<img, out, yearlyList, fit, anyValid, slope>>

\* The fit, anyValid and the masked slope layer (lines 122-128).
Trend ==
    /\ pc = "collected"
    /\ pc' = "done"
    /\ \E degenerate \in BOOLEAN :
          LET f == LinearFitScale(yearCollection, degenerate)
              a == AnyValid(yearCollection)
          IN  /\ fit' = f
              /\ anyValid' = a
              /\ slope' = UpdateMask(Rename(f, "NDVI_slope_per_year"), a)
    /\ UNCHANGED <<img, out, col, yearlyList, lastYear>>

Next == BuildYear \/ Collect \/ Trend

Spec == Init /\ [][Next]_vars

(* ---------- maskS2SR on its own ---------- *)
\* Pixel contents: whether the pixel carries data, and its SCL class, QA60
\* value and cloud probability.
SclVals == {3, 4, 5, 6, 7, 8}
Qa60Vals == {0, 1024}
CldVals == {49, 50}
PixelContents ==
    [valid : BOOLEAN, SCL : SclVals, QA60 : Qa60Vals, MSK_CLDPRB : CldVals]

\* An S2 image with the mask bands of present; f gives each pixel's contents.
S2Image(present, f) ==
    [ok |-> TRUE,
     bands |-> OpticalBands \cup present,
     px |-> [b \in OpticalBands \cup MaskBands |->
               [p \in Pixels |->
                  Px(f[p].valid, CASE b = "SCL" -> f[p].SCL
                                   [] b = "QA60" -> f[p].QA60
                                   [] b = "MSK_CLDPRB" -> f[p].MSK_CLDPRB
                                   [] b = "B8" -> 3
                                   [] OTHER -> 1)]]]

InitMask ==
    /\ pc = "mask_in"
    /\ \E present \in SUBSET MaskBands, f \in [Pixels -> PixelContents] :
          img = S2Image(present, f)
    /\ out = NoImage
    /\ PipelineIdle

ApplyMask ==
    /\ pc = "mask_in"
    /\ pc' = "mask_out"
    /\ out' = maskS2SR(img)
    /\ UNCHANGED <<img, col, yearlyList, lastYear, fit, anyValid, slope>>

NextMask == ApplyMask

SpecMask == InitMask /\ [][NextMask]_vars

(* ---------- properties ---------- *)
\* A pixel of an image carries data when none of the image's bands masks it.
HasData(image, p) == \A b \in image.bands : image.px[b][p].m

\* The masks of the bands an image has.
MaskOf(image) ==
    [b \in image.bands |-> [p \in Pixels |-> image.px[b][p].m]]

\* The image with other contents (value g, unmasked) under the names of the
\* mask bands it does not have.
Garble(image, g) ==
    [image EXCEPT !.px =
        [b \in DOMAIN image.px |->
            IF b \in MaskBands \ image.bands
            THEN [p \in Pixels |-> Px(TRUE, g)]
            ELSE image.px[b]]]

GarbleVals == {0, 4, 60, 1024}

\* C1: for each of the 8 combinations of SCL, QA60 and MSK_CLDPRB being on
\* the image or not, maskS2SR returns an image without an error, with the
\* bands of its input, and the masks it sets are the same whatever lies
\* under the names of the absent bands: no absent band is read.
C1_MissingBandsSafe ==
    pc = "mask_out" =>
        /\ out.ok
        /\ out.bands = img.bands
        /\ \A g \in GarbleVals :
              LET o == maskS2SR(Garble(img, g))
              IN  o.ok /\ MaskOf(o) = MaskOf(out)

\* C1 witness: an image with none of the three mask bands went through
\* maskS2SR, came back without an error, and kept every pixel it had.
C1_Witness ==
    /\ pc = "mask_out"
    /\ img.bands \cap MaskBands = {}
    /\ out.ok
    /\ \E p \in Pixels : HasData(img, p)
    /\ \A p \in Pixels : HasData(img, p) => HasData(out, p)

\* C5: on an image with SCL, a pixel that carries data is kept if and only
\* if its SCL class is one of 4, 5, 6, 7 or its second condition holds: the
\* second condition is QA60 = 0 when the image has QA60, and
\* MSK_CLDPRB < 50 when it has no QA60 but has MSK_CLDPRB.
C5_PermissiveCombine ==
    (pc = "mask_out" /\ "SCL" \in img.bands) =>
        \A p \in Pixels :
            HasData(img, p) =>
                LET land == img.px["SCL"][p].v \in {4, 5, 6, 7}
                    qa0 == img.px["QA60"][p].v = 0
                    clear == img.px["MSK_CLDPRB"][p].v < 50
                IN  /\ "QA60" \in img.bands =>
                          (HasData(out, p) <=> (land \/ qa0))
                    /\ ("QA60" \notin img.bands /\ "MSK_CLDPRB" \in img.bands) =>
                          (HasData(out, p) <=> (land \/ clear))

\* C5 witness: an image with SCL and QA60 was masked; one pixel outside the
\* land classes with QA60 = 0 was kept, another outside the land classes
\* with QA60 # 0 was masked out.
C5_Witness ==
    /\ pc = "mask_out"
    /\ {"SCL", "QA60"} \subseteq img.bands
    /\ \E p, q \in Pixels :
          /\ HasData(img, p) /\ HasData(img, q)
          /\ img.px["SCL"][p].v \notin {4, 5, 6, 7}
          /\ img.px["QA60"][p].v = 0
          /\ HasData(out, p)
          /\ img.px["SCL"][q].v \notin {4, 5, 6, 7}
          /\ img.px["QA60"][q].v # 0
          /\ ~HasData(out, q)

\* C2: the yearly collection holds one image per year of yearStart..yearEnd
\* in ascending order, yearEnd - yearStart + 1 in all; each has band NDVI,
\* band t equal to its year at every pixel and property year equal to its
\* year; filtering on year = yearEnd leaves exactly one image.
C2_OneImagePerYear ==
    /\ \A i \in 1..Len(yearlyList) :
          LET im == yearlyList[i]
          IN  /\ im.ok
              /\ im.year = yearStart + i - 1
              /\ {"NDVI", "t"} \subseteq im.bands
              /\ \A p \in Pixels : im.px["t"][p] = Px(TRUE, im.year)
    /\ pc \in {"collected", "done"} =>
          /\ Len(yearCollection) = yearEnd - yearStart + 1
          /\ Len(FilterYear(yearCollection, yearEnd)) = 1
          /\ lastYear = yearCollection[Len(yearCollection)]
          /\ lastYear.year = yearEnd

\* C2 witness: the collection is complete, with a year built from an empty
\* collection and a year built from images.
C2_Witness ==
    /\ pc = "done"
    /\ Len(yearCollection) = yearEnd - yearStart + 1
    /\ \E i, j \in 1..Len(yearCollection) :
          /\ yearCollection[i].px["NDVI"][1] = Px(TRUE, NoData)
          /\ yearCollection[j].px["NDVI"][1].m
          /\ yearCollection[j].px["NDVI"][1].v # NoData

\* v is a median of the non-empty sequence s: at least half of the values
\* are at most v and at least half are at least v.
IsMedian(s, v) ==
    /\ 2 * Cardinality({i \in 1..Len(s) : s[i] <= v}) >= Len(s)
    /\ 2 * Cardinality({i \in 1..Len(s) : s[i] >= v}) >= Len(s)

\* C3: the yearly NDVI image is -9999 at every pixel of the region if and
\* only if the year's collection is empty; when it is not empty, a pixel of
\* the region is masked if no image of the year is unmasked there, and is
\* otherwise the median of the year's unmasked NDVI values, within [-1, 1]
\* and so never -9999.
C3_NodataIffEmpty ==
    (pc = "years" /\ Len(yearlyList) > 0) =>
        LET ndvi == yearlyList[Len(yearlyList)].px["NDVI"]
        IN  /\ (\A p \in region : ndvi[p] = Px(TRUE, NoData)) <=> (Len(col) = 0)
            /\ Len(col) > 0 =>
                  \A p \in region :
                      LET s == ValuesAt(col, "NDVI", p)
                      IN  IF Len(s) = 0 THEN ~ndvi[p].m
                          ELSE /\ ndvi[p].m
                               /\ IsMedian(s, ndvi[p].v)
                               /\ ndvi[p].v >= -Scale
                               /\ ndvi[p].v <= Scale
                               /\ ndvi[p].v # NoData

\* C3 witness: a year was built from two images with different unmasked
\* NDVI values at a pixel of the region.
C3_Witness ==
    /\ pc = "years"
    /\ Len(yearlyList) > 0
    /\ \E p \in region :
          LET s == ValuesAt(col, "NDVI", p)
          IN  /\ Len(s) >= 2
              /\ s[1] # s[2]
              /\ yearlyList[Len(yearlyList)].px["NDVI"][p].m

\* Pixel p has a valid NDVI value in year i: unmasked and not -9999.
ValidIn(i, p) ==
    /\ yearCollection[i].px["NDVI"][p].m
    /\ yearCollection[i].px["NDVI"][p].v # NoData

\* C4: a pixel of the region whose slope the fit computed is masked out of
\* the slope layer only if it has no valid NDVI value in any year: a pixel
\* with a valid NDVI value in at least one year keeps its slope.
C4_NodataOnlyMasked ==
    pc = "done" =>
        \A p \in region :
            (fit.px[p].m /\ (\E i \in 1..Len(yearCollection) : ValidIn(i, p)))
                => slope.px["NDVI_slope_per_year"][p].m

====
